---- MODULE Spec2Model ----
(***************************************************************************)
(* A model of the Docker control bot: the button-driven navigation of      *)
(* bot.py over a container runtime, and the remote-shell facade of         *)
(* docker_client.py (command executor, listing parser, stats parser).      *)
(*                                                                         *)
(* Strings are sequences of tokens.  A token is either a separator         *)
(* character ("_", TAB, NL, "%", "." ...) or a run of characters that      *)
(* holds no separator, so that split, join, strip and startswith act on    *)
(* them exactly as the Python methods act on the strings.                  *)
(***************************************************************************)
EXTENDS Integers, Sequences, FiniteSets, TLC

VARIABLES
    containers,     \* the container runtime: name -> "running" | "exited" | "absent"
    allowed_users,  \* the configured allow-list of actor ids (ALLOWED_USERS)
    pc,             \* position of the handler holding the event loop
    cur,            \* the update being handled (the last one handled when pc = "idle")
    before,         \* the view displayed when the handling of cur began
    offered,        \* every button pressed on the message so far was one it offered
    ops,            \* the runtime calls made so far while handling cur
    outcome,        \* how the handling of cur ended
    stats_text,     \* show_stats: the local stats_text between its two fetches
    msg,            \* the chat message as displayed: how sent, text, keyboard
    logs_in,        \* truncation: the log text returned by get_container_logs
    logs_out,       \* truncation: the text shown in its place
    ssh_out,        \* facade parsers: the standard outputs of the commands the call runs
    parsed,         \* facade parsers: what the facade call returned or raised
    ex              \* command executor: the state of one _run_ssh_command call

navVars == <<containers, allowed_users, pc, cur, before, offered, ops, outcome,
             stats_text, msg>>
logVars == <<logs_in, logs_out>>
parseVars == <<ssh_out, parsed>>
vars == <<containers, allowed_users, pc, cur, before, offered, ops, outcome,
          stats_text, msg, logs_in, logs_out, ssh_out, parsed, ex>>

----------------------------------------------------------------------------
(* Python string methods *)

RECURSIVE split(_, _)
split(s, sep) ==
    IF \A i \in 1..Len(s) : s[i] # sep
    THEN <<s>>
    ELSE LET i == CHOOSE k \in 1..Len(s) :
                      s[k] = sep /\ \A j \in 1..(k - 1) : s[j] # sep
         IN  <<SubSeq(s, 1, i - 1)>> \o split(SubSeq(s, i + 1, Len(s)), sep)

RECURSIVE join(_, _)
join(sep, parts) ==
    IF parts = <<>> THEN <<>>
    ELSE IF Len(parts) = 1 THEN parts[1]
    ELSE parts[1] \o <<sep>> \o join(sep, Tail(parts))

startswith(s, prefix) ==
    Len(s) >= Len(prefix) /\ SubSeq(s, 1, Len(prefix)) = prefix

----------------------------------------------------------------------------
(* The container runtime (Docker), as the bot calls it *)

web == <<"web">>
my_app == <<"my", "_", "app">>
ContainerNames == {web, my_app}
NameOrder == <<web, my_app>>
Statuses == {"running", "exited"}

ImageOf(name) == <<"img">> \o name

\* container.start() / stop() / restart(): the status the runtime leaves
Target(op) == IF op = "stop" THEN "exited" ELSE "running"

\* containers.get(name): found when the runtime holds a container of that name
Exists(name) == name \in ContainerNames /\ containers[name] # "absent"

RECURSIVE ListFrom(_, _)
ListFrom(i, all) ==
    IF i > Len(NameOrder) THEN <<>>
    ELSE LET n == NameOrder[i]
         IN  (IF containers[n] = "running" \/ (all /\ containers[n] = "exited")
              THEN <<[name |-> n, status |-> containers[n], image |-> ImageOf(n)]>>
              ELSE <<>>) \o ListFrom(i + 1, all)

\* containers.list(all=...): the containers held, the stopped ones only with all
RtList(all) == ListFrom(1, all)

\* One record per runtime call made by a handler.
Op(op, name, ok, pre, post) ==
    [op |-> op, name |-> name, ok |-> ok, pre |-> pre, post |-> post]

StatusOf(name) == IF name \in ContainerNames THEN containers[name] ELSE "absent"

----------------------------------------------------------------------------
(* Updates and callback data *)

Actors == {42, 7}
AllowLists == {{}, {42}}

Tag(s) == <<s>>
container_tag(name) == <<"container", "_">> \o name
action_tag(verb, name) == <<"action", "_", verb, "_">> \o name

Verbs == {"start", "stop", "restart", "logs"}
KnownTags ==
    {Tag("list"), Tag("stats"), Tag("back")}
        \cup {container_tag(n) : n \in ContainerNames}
        \cup {action_tag(v, n) : v \in Verbs, n \in ContainerNames}
OtherTags ==
    {Tag("images"), action_tag("kill", web), <<"action", "_", "stop">>, <<"action", "_">>}
Tags == KnownTags \cup OtherTags

Command(actor) == [kind |-> "command", data |-> <<"/start">>, actor |-> actor]
Button(data, actor) == [kind |-> "button", data |-> data, actor |-> actor]
NoUpdate == [kind |-> "none", data |-> <<>>, actor |-> 0]
Updates == {Command(a) : a \in Actors} \cup {Button(t, a) : t \in Tags, a \in Actors}

----------------------------------------------------------------------------
(* Rendered messages *)

Btn(label, data) == [label |-> label, data |-> data]
\* A message text: which message it is, the container it names, and what it
\* lists (containers, the running/total counts and stats entries, log characters).
Text(kind, name, status) ==
    [kind |-> kind, name |-> name, status |-> status, items |-> <<>>,
     counts |-> <<>>, stats |-> <<>>, note |-> "", chars |-> <<>>]
Msg(sent, text, keyboard) == [sent |-> sent, text |-> text, keyboard |-> keyboard]

NoMsg == Msg("none", Text("none", <<>>, ""), <<>>)

\* The message offers a button that carries the callback data.
HasButton(m, data) == \E i \in 1..Len(m.keyboard) : m.keyboard[i].data = data

\* The view a message displays: which screen, for which container, sent how.
ViewOf(m) == [sent |-> m.sent, kind |-> m.text.kind, name |-> m.text.name]

MainText == Text("main", <<>>, "")
MainKeyboard == <<Btn("list", Tag("list")), Btn("stats", Tag("stats"))>>

\* DockerBot.start: the menu as a new message
start == Msg("reply_text", MainText, MainKeyboard)

\* start_menu with the stats button left out of the keyboard
start_menu_without_stats ==
    Msg("edit_message_text", MainText, <<Btn("list", Tag("list"))>>)

\* DockerBot.start_menu: the menu in place of the message whose button was pressed
start_menu == Msg("edit_message_text", MainText, MainKeyboard)

----------------------------------------------------------------------------
(* bot.py: the facade over the Docker SDK.  `ok` is whether the runtime     *)
(* answered the call; a call that fails raises inside the method's try.     *)

\* A method's result: the value returned, or an exception leaving the method.
Ret(value) == [raised |-> FALSE, value |-> value]

\* DockerBot.get_containers: the listing, or [] when the listing raised
get_containers(ok) == IF ok THEN Ret(RtList(TRUE)) ELSE Ret(<<>>)

\* The stats sample of one container, as container.stats(stream=False) gives it.
GoodSample == [has_cpu |-> TRUE, cpu_delta |-> 1, system_delta |-> 4, ncpu |-> 2,
               has_mem |-> TRUE, usage |-> 1, limit |-> 4]
BadSample == [has_cpu |-> FALSE, cpu_delta |-> 0, system_delta |-> 0, ncpu |-> 0,
              has_mem |-> TRUE, usage |-> 1, limit |-> 0]
StatsSamples == {GoodSample, BadSample}

\* DockerBot._calculate_cpu_percent, in tenths of a percent: 0.0 on any exception
\* (a missing key, a zero system delta)
_calculate_cpu_percent(stats) ==
    IF stats.has_cpu /\ stats.system_delta # 0
    THEN (stats.cpu_delta * stats.ncpu * 1000) \div stats.system_delta
    ELSE 0

\* DockerBot._calculate_memory_percent, in tenths of a percent
_calculate_memory_percent(stats) ==
    IF stats.has_mem /\ stats.limit # 0
    THEN (stats.usage * 1000) \div stats.limit
    ELSE 0

StatsText(note, entries) == [note |-> note, entries |-> entries]
NoStatsText == StatsText("", <<>>)

\* DockerBot.get_container_stats: one entry per running container
get_container_stats(ok, sample) ==
    IF ~ok THEN Ret(StatsText("stats_error", <<>>))
    ELSE LET running == RtList(FALSE)
         IN  IF running = <<>>
             THEN Ret(StatsText("no_running_containers", <<>>))
             ELSE Ret(StatsText("", [i \in 1..Len(running) |->
                      [name |-> running[i].name,
                       cpu |-> _calculate_cpu_percent(sample[running[i].name]),
                       mem |-> _calculate_memory_percent(sample[running[i].name])]]))

\* container.<op>() on a container object kept from an earlier lookup, without
\* containers.get(name): the operation goes through on a container the runtime
\* no longer holds
RtApplyCached(op, name, ok) ==
    IF ok /\ name \in ContainerNames
    THEN [failed |-> FALSE, post |-> Target(op)]
    ELSE [failed |-> TRUE, post |-> StatusOf(name)]

\* containers.get(name) followed by container.<op>(): what the runtime does
RtApply(op, name, ok) ==
    IF ok /\ Exists(name)
    THEN [failed |-> FALSE, post |-> Target(op)]
    ELSE [failed |-> TRUE, post |-> StatusOf(name)]

\* DockerBot.start_container: True, or False when the runtime call raised
start_container(container_name, ok) ==
    LET r == RtApply("start", container_name, ok)
    IN  [raised |-> FALSE, value |-> ~r.failed, post |-> r.post]

\* stop_container calling container.start() in place of container.stop()
stop_container_starts(container_name, ok) ==
    LET r == RtApply("start", container_name, ok)
    IN  [raised |-> FALSE, value |-> ~r.failed, post |-> r.post]

\* DockerBot.stop_container
stop_container(container_name, ok) ==
    LET r == RtApply("stop", container_name, ok)
    IN  [raised |-> FALSE, value |-> ~r.failed, post |-> r.post]

\* DockerBot.restart_container
restart_container(container_name, ok) ==
    LET r == RtApply("restart", container_name, ok)
    IN  [raised |-> FALSE, value |-> ~r.failed, post |-> r.post]

\* container.logs(tail=lines), decoded: the characters of the log
LogOf(name) == <<"l", "o", "g">>
LogsErrorText == <<"E", "r", "r">>

\* DockerBot.get_container_logs: the log, or the error text when the call raised
get_container_logs(container_name, ok) ==
    IF ok /\ Exists(container_name) THEN Ret(LogOf(container_name))
    ELSE Ret(LogsErrorText)

\* The display cap of handle_action and the marker it adds,
\* "\n\n... (показаны последние 20 строк)", character by character.
LogCap == 3000
MarkerLen == 35
Marker == [i \in 1..MarkerLen |-> <<"marker", i>>]

\* truncation keeping the head of the log, logs[:3000], in place of its tail
TruncateLogsHead(logs) ==
    IF Len(logs) > LogCap
    THEN SubSeq(logs, 1, LogCap) \o Marker
    ELSE logs

\* handle_action, the logs branch: logs[-3000:] + marker when len(logs) > 3000
TruncateLogs(logs) ==
    IF Len(logs) > LogCap
    THEN SubSeq(logs, Len(logs) - LogCap + 1, Len(logs)) \o Marker
    ELSE logs

----------------------------------------------------------------------------
(* bot.py: what each view renders *)

Edit(text, keyboard) == Msg("edit_message_text", text, keyboard)

\* DockerBot.show_containers, given the listing fetched
show_containers(lst) ==
    IF lst = <<>>
    THEN Edit(Text("containers_not_found", <<>>, ""), <<>>)
    ELSE Edit([Text("container_list", <<>>, "") EXCEPT !.items = lst],
              [i \in 1..Len(lst) |->
                  Btn(<<IF lst[i].status = "running" THEN "stop_icon" ELSE "play_icon">>
                          \o lst[i].name,
                      container_tag(lst[i].name))]
                  \o <<Btn(<<"back">>, Tag("back"))>>)

\* show_container_info: the name is the second piece of the callback data
InfoName(data) == split(data, "_")[2]

\* show_container_info without the test of the status: the start button is
\* appended whatever the status is
show_container_info_always_start(data, ok) ==
    LET container_name == InfoName(data)
    IN  IF ok /\ Exists(container_name)
        THEN LET status == containers[container_name]
             IN  Edit([Text("container_info", container_name, status)
                          EXCEPT !.items = <<ImageOf(container_name)>>],
                      (IF status = "running"
                       THEN <<Btn(<<"stop">>, action_tag("stop", container_name)),
                              Btn(<<"restart">>, action_tag("restart", container_name))>>
                       ELSE <<>>)
                      \o <<Btn(<<"start">>, action_tag("start", container_name)),
                           Btn(<<"logs">>, action_tag("logs", container_name)),
                           Btn(<<"back">>, Tag("list"))>>)
        ELSE Edit(Text("container_info_error", container_name, ""), <<>>)

\* DockerBot.show_container_info, given whether containers.get answered
show_container_info(data, ok) ==
    LET container_name == InfoName(data)
    IN  IF ok /\ Exists(container_name)
        THEN LET status == containers[container_name]
             IN  Edit([Text("container_info", container_name, status)
                          EXCEPT !.items = <<ImageOf(container_name)>>],
                      (IF status = "running"
                       THEN <<Btn(<<"stop">>, action_tag("stop", container_name)),
                              Btn(<<"restart">>, action_tag("restart", container_name))>>
                       ELSE <<Btn(<<"start">>, action_tag("start", container_name))>>)
                      \o <<Btn(<<"logs">>, action_tag("logs", container_name)),
                           Btn(<<"back">>, Tag("list"))>>)
        ELSE Edit(Text("container_info_error", container_name, ""), <<>>)

\* handle_action: the action and the container name held by the callback data
ActionOf(data) == split(data, "_")[2]
ActionName(data) ==
    LET parts == split(data, "_") IN join("_", SubSeq(parts, 3, Len(parts)))

\* handle_action, the start / stop / restart branches: the status message
ActionMessage(action, container_name, success) ==
    Edit(Text(IF success THEN "done" ELSE "failed", container_name, action), <<>>)

\* the logs view with the back button of the list, callback data "back"
LogsMessageBackToMenu(container_name, logs) ==
    Edit([Text("logs", container_name, "") EXCEPT !.chars = TruncateLogs(logs)],
         <<Btn(<<"back">>, Tag("back"))>>)

\* handle_action, the logs branch
LogsMessage(container_name, logs) ==
    Edit([Text("logs", container_name, "") EXCEPT !.chars = TruncateLogs(logs)],
         <<Btn(<<"back">>, container_tag(container_name))>>)

\* DockerBot.show_stats, given stats_text and the listing fetched after it
show_stats(text, lst) ==
    LET running == {i \in 1..Len(lst) : lst[i].status = "running"}
    IN  Edit([Text("stats", <<>>, "") EXCEPT
                  !.counts = <<Cardinality(running), Len(lst)>>,
                  !.stats = text.entries,
                  !.note = text.note],
             <<Btn(<<"back">>, Tag("back"))>>)

----------------------------------------------------------------------------
(* bot.py: the handlers.  The Application is built without concurrent       *)
(* updates and every Docker SDK call is a synchronous call inside the       *)
(* coroutine, so one handler holds the event loop from its dispatch to its  *)
(* last render; the runtime itself changes under it at any time.            *)

\* A facade call that has not returned yet, has returned a value, or has raised.
Pending == [done |-> FALSE, raised |-> FALSE, value |-> <<>>]
Returned(value) == [done |-> TRUE, raised |-> FALSE, value |-> value]
Raised(error) == [done |-> TRUE, raised |-> TRUE, value |-> <<error>>]

ExIdle == [pc |-> "idle", command |-> <<>>, remote |-> "none", returncode |-> 0,
           stdout |-> <<>>, stderr |-> <<>>, result |-> "none", text |-> <<>>]

Init ==
    /\ containers \in [ContainerNames -> Statuses \cup {"absent"}]
    /\ allowed_users \in AllowLists
    /\ pc = "idle"
    /\ cur = NoUpdate
    /\ before = ViewOf(NoMsg)
    /\ offered = TRUE
    /\ ops = <<>>
    /\ outcome = "none"
    /\ stats_text = NoStatsText
    /\ msg = NoMsg
    /\ logs_in = <<>> /\ logs_out = <<>>
    /\ ssh_out = <<>> /\ parsed = Pending
    /\ ex = ExIdle

otherVars == <<logs_in, logs_out, ssh_out, parsed, ex>>

\* The runtime changes by itself or by another client of the Docker socket.
RuntimeChange(name, status) ==
    /\ containers[name] # status
    /\ containers' = [containers EXCEPT ![name] = status]
    /\ UNCHANGED <<allowed_users, pc, cur, before, offered, ops, outcome,
                   stats_text, msg, otherVars>>

\* The handling of a delivered update begins once no handler holds the event
\* loop; until then the update waits with the transport.
Take(u) ==
    /\ pc = "idle"
    /\ cur' = u
    /\ before' = ViewOf(msg)
    /\ offered' = (u.kind = "command" \/ (offered /\ HasButton(msg, u.data)))
    /\ ops' = <<>>

Finish(message, how) ==
    /\ msg' = message
    /\ outcome' = how
    /\ pc' = "idle"

\* DockerBot.start, the /start command: no check of the actor
StartCommand(u) ==
    /\ u.kind = "command"
    /\ Take(u)
    /\ Finish(start, "rendered")
    /\ UNCHANGED <<containers, allowed_users, stats_text, otherVars>>

\* the elif chain closed by an else branch that shows the main menu
RouteElseMenu(data) ==
    IF data = Tag("list") THEN "show_containers"
    ELSE IF data = Tag("stats") THEN "show_stats"
    ELSE IF data = Tag("back") THEN "start_menu"
    ELSE IF startswith(data, <<"container", "_">>) THEN "show_container_info"
    ELSE IF startswith(data, <<"action", "_">>) THEN "handle_action"
    ELSE "start_menu"

\* button_handler: the method the elif chain over query.data calls
Route(data) ==
    IF data = Tag("list") THEN "show_containers"
    ELSE IF data = Tag("stats") THEN "show_stats"
    ELSE IF data = Tag("back") THEN "start_menu"
    ELSE IF startswith(data, <<"container", "_">>) THEN "show_container_info"
    ELSE IF startswith(data, <<"action", "_">>) THEN "handle_action"
    ELSE "none"

\* DockerBot.button_handler, on a button of a message the bot sent: no check
\* of the actor
button_handler(u) ==
    /\ u.kind = "button"
    /\ msg # NoMsg
    /\ Take(u)
    /\ LET next == Route(u.data)
       IN  IF next = "start_menu" THEN Finish(start_menu, "rendered")
           ELSE IF next = "none" THEN Finish(msg, "ignored")
           ELSE pc' = next /\ outcome' = "none" /\ msg' = msg
    /\ UNCHANGED <<containers, allowed_users, stats_text, otherVars>>

\* show_containers: the listing call returns and the list is rendered
ShowContainers ==
    /\ pc = "show_containers"
    /\ \E ok \in BOOLEAN :
          LET r == get_containers(ok)
          IN  /\ ops' = Append(ops, Op("list", <<>>, ok, "", ""))
              /\ IF r.raised THEN Finish(msg, "raised")
                 ELSE Finish(show_containers(r.value), "rendered")
    /\ UNCHANGED <<containers, allowed_users, cur, before, offered, stats_text, otherVars>>

\* show_container_info: containers.get returns and the detail is rendered
ShowContainerInfo ==
    /\ pc = "show_container_info"
    /\ \E ok \in BOOLEAN :
          /\ ops' = Append(ops, Op("get", InfoName(cur.data),
                                   ok /\ Exists(InfoName(cur.data)), "", ""))
          /\ Finish(show_container_info(cur.data, ok), "rendered")
    /\ UNCHANGED <<containers, allowed_users, cur, before, offered, stats_text, otherVars>>

Lifecycle == {Tag("start"), Tag("stop"), Tag("restart")}

\* The facade method handle_action calls for a lifecycle action
CallLifecycle(action, container_name, ok) ==
    IF action = Tag("start") THEN start_container(container_name, ok)
    ELSE IF action = Tag("stop") THEN stop_container(container_name, ok)
    ELSE restart_container(container_name, ok)

\* DockerBot.handle_action: the runtime call returns and its outcome is rendered
HandleAction ==
    /\ pc = "handle_action"
    /\ LET action == ActionOf(cur.data)
           container_name == ActionName(cur.data)
       IN  IF action \in Lifecycle
           THEN \E ok \in BOOLEAN :
                   LET r == CallLifecycle(action, container_name, ok)
                   IN  /\ containers' =
                              IF container_name \in ContainerNames
                              THEN [containers EXCEPT ![container_name] = r.post]
                              ELSE containers
                       /\ ops' = Append(ops, Op(action[1], container_name,
                                                ok /\ Exists(container_name),
                                                StatusOf(container_name), r.post))
                       /\ IF r.raised THEN Finish(msg, "raised")
                          ELSE Finish(ActionMessage(action[1], container_name, r.value),
                                      "rendered")
           ELSE IF action = Tag("logs")
           THEN \E ok \in BOOLEAN :
                   LET r == get_container_logs(container_name, ok)
                   IN  /\ containers' = containers
                       /\ ops' = Append(ops, Op("logs", container_name,
                                                ok /\ Exists(container_name), "", ""))
                       /\ IF r.raised THEN Finish(msg, "raised")
                          ELSE Finish(LogsMessage(container_name, r.value), "rendered")
           ELSE /\ containers' = containers
                /\ ops' = ops
                /\ Finish(msg, "ignored")
    /\ UNCHANGED <<allowed_users, cur, before, offered, stats_text, otherVars>>

\* show_stats, first fetch: get_container_stats returns stats_text
ShowStats ==
    /\ pc = "show_stats"
    /\ \E ok \in BOOLEAN, sample \in [ContainerNames -> StatsSamples] :
          LET r == get_container_stats(ok, sample)
          IN  /\ ops' = Append(ops, Op("stats", <<>>, ok, "", ""))
              /\ IF r.raised
                 THEN Finish(msg, "raised") /\ stats_text' = stats_text
                 ELSE stats_text' = r.value /\ pc' = "show_stats_count"
                      /\ msg' = msg /\ outcome' = outcome
    /\ UNCHANGED <<containers, allowed_users, cur, before, offered, otherVars>>

\* show_stats, second fetch: get_containers returns and the view is rendered
ShowStatsCount ==
    /\ pc = "show_stats_count"
    /\ \E ok \in BOOLEAN :
          LET r == get_containers(ok)
          IN  /\ ops' = Append(ops, Op("list", <<>>, ok, "", ""))
              /\ IF r.raised THEN Finish(msg, "raised")
                 ELSE Finish(show_stats(stats_text, r.value), "rendered")
    /\ stats_text' = NoStatsText
    /\ UNCHANGED <<containers, allowed_users, cur, before, offered, otherVars>>

Next ==
    \/ \E n \in ContainerNames, s \in Statuses \cup {"absent"} : RuntimeChange(n, s)
    \/ \E u \in Updates : StartCommand(u)
    \/ \E u \in Updates : button_handler(u)
    \/ ShowContainers
    \/ ShowContainerInfo
    \/ HandleAction
    \/ ShowStats
    \/ ShowStatsCount

Spec == Init /\ [][Next]_vars

----------------------------------------------------------------------------
(* Navigation claims *)

Handled == pc = "idle" /\ cur # NoUpdate
HandledButton(data) == Handled /\ cur.kind = "button" /\ cur.data = data
SameContent(m1, m2) == m1.text = m2.text /\ m1.keyboard = m2.keyboard

\* C1: from the Main view rendered by /start, select(list) followed by
\* select(back) ends in Main, with the text and keyboard /start rendered,
\* whatever the runtime holds and whether or not the listing failed.
C1_RoundTrip ==
    [][(/\ HandledButton(Tag("list"))
        /\ before = ViewOf(start)
        /\ cur'.kind = "button" /\ cur'.data = Tag("back"))
       => (/\ pc' = "idle"
           /\ outcome' = "rendered"
           /\ ViewOf(msg').kind = "main"
           /\ SameContent(msg', start))]_vars

\* C1 witness: back was handled on a rendered container list and Main is shown.
C1_Witness ==
    /\ HandledButton(Tag("back"))
    /\ before.kind = "container_list"
    /\ SameContent(msg, start)

Denied(actor) == allowed_users # {} /\ actor \notin allowed_users

\* C2: an interaction of an actor outside a non-empty allow-list is answered
\* with a denial, performs no runtime operation and leaves the view as it was;
\* any other interaction is processed.
C2_AccessGate ==
    /\ pc # "idle" => ~Denied(cur.actor)
    /\ Handled =>
          IF Denied(cur.actor)
          THEN outcome = "denied" /\ ops = <<>> /\ ViewOf(msg) = before
          ELSE outcome # "denied"

FailedOps == {i \in 1..Len(ops) : ~ops[i].ok}

\* The texts that tell the operator of an error.
IsErrorText(text) ==
    \/ text.kind \in {"container_info_error", "failed"}
    \/ text.kind = "logs" /\ text.chars = LogsErrorText
    \/ text.kind = "stats" /\ text.note = "stats_error"

\* C3: a button press during which a runtime call failed ends normally with an
\* error message rendered for it, and no exception leaves the handler.
C3_ErrorsRendered ==
    (Handled /\ cur.kind = "button" /\ FailedOps # {})
        => outcome = "rendered" /\ IsErrorText(msg.text)

\* A runtime command of the interaction being handled is in progress.
InCall ==
    /\ pc # "idle"
    /\ pc = "handle_action" => ActionOf(cur.data) \in Lifecycle \cup {Tag("logs")}

\* C4: while the runtime command of one interaction is in progress, the
\* handling of another incoming interaction can start.
C4_NonBlocking ==
    InCall => \A u \in Updates :
                 ENABLED (StartCommand(u) \/ button_handler(u))

\* C9: a lifecycle operation ends in ok or a failure message, never in an
\* exception; on a container already in the target state it leaves the state as
\* it is; once it succeeded the container is in the target state, and applying
\* it again then leaves that state.
C9_Idempotent ==
    (Handled /\ cur.kind = "button" /\ Route(cur.data) = "handle_action"
        /\ ActionOf(cur.data) \in Lifecycle)
    => /\ outcome = "rendered"
       /\ msg.text.kind \in {"done", "failed"}
       /\ Len(ops) = 1
       /\ LET o == ops[1]
              n == ActionName(cur.data)
          IN  /\ o.op = ActionOf(cur.data)[1] /\ o.name = n
              /\ o.pre = Target(o.op) => o.post = o.pre
              /\ msg.text.kind = "done" => o.post = Target(o.op)
              /\ msg.text.kind = "failed" => o.post = o.pre
              /\ (msg.text.kind = "done" /\ StatusOf(n) = o.post) =>
                    \A ok \in BOOLEAN :
                        LET again == CallLifecycle(ActionOf(cur.data), n, ok)
                        IN  ~again.raised /\ again.post = o.post

\* C9 witness: stop was applied to a container that was already stopped.
C9_Witness ==
    /\ HandledButton(action_tag("stop", web))
    /\ ops[1].pre = "exited" /\ ops[1].post = "exited"
    /\ msg.text.kind = "done"

\* C10: a lifecycle action pressed in ContainerDetailView(id) fetches the detail
\* again and leaves the machine in ContainerDetailView(id), with its action,
\* logs and back buttons.
C10_KeepsView ==
    (Handled /\ cur.kind = "button" /\ Route(cur.data) = "handle_action"
        /\ ActionOf(cur.data) \in Lifecycle
        /\ before.kind = "container_info" /\ before.name = ActionName(cur.data))
    => /\ msg.text.kind = "container_info"
       /\ msg.text.name = before.name
       /\ \E i \in 1..Len(ops) : ops[i].op = "get"
       /\ HasButton(msg, action_tag("logs", before.name))
       /\ HasButton(msg, Tag("list"))

\* A message is on display and no handler is running.
Displayed == pc = "idle" /\ msg # NoMsg

\* The view on display was reached from /start by presses of buttons that the
\* views on display offered.
Reached == Displayed /\ offered

\* The button of a message that leads one step towards Main: back to the menu,
\* to the list, or to a container's detail.
LeadsUp(m) ==
    \E i \in 1..Len(m.keyboard) :
        Route(m.keyboard[i].data) \in {"start_menu", "show_containers",
                                       "show_container_info"}

\* C11: every view reached by presses of offered buttons offers at least one
\* button, and every such view other than Main offers a button that leads
\* towards Main: no view is a dead end.
C11_NoDeadEnd ==
    Reached =>
        /\ msg.keyboard # <<>>
        /\ msg.text.kind # "main" => LeadsUp(msg)

\* The containers whose button in the list on display carries the data pressed.
Selected(m, data) ==
    {m.text.items[i].name : i \in {j \in 1..Len(m.text.items) : m.keyboard[j].data = data}}

LastOp(o) == o[Len(o)]

\* C12: the button of a listed container shows the detail of the container of
\* exactly that name; the start, stop, restart and logs buttons of a detail
\* view act on exactly the name that view shows, and the logs view is shown
\* for that name.
C12_TargetPreserved ==
    [][/\ (/\ pc = "show_container_info" /\ pc' = "idle" /\ offered
           /\ msg.text.kind = "container_list")
          => \A n \in Selected(msg, cur.data) :
                 /\ msg'.text.name = n
                 /\ LastOp(ops').name = n
       /\ (/\ pc = "handle_action" /\ pc' = "idle" /\ offered
           /\ msg.text.kind = "container_info" /\ HasButton(msg, cur.data))
          => /\ msg'.text.name = msg.text.name
             /\ LastOp(ops').name = msg.text.name
             /\ ActionOf(cur.data) = Tag("logs") => msg'.text.kind = "logs"]_vars

\* The views that carry a back button, and the data of that button.
HasBack(m) == m.text.kind \in {"container_list", "container_info", "logs", "stats"}
BackData(m) ==
    m.keyboard[CHOOSE i \in 1..Len(m.keyboard) : m.keyboard[i].label = <<"back">>].data

\* The step that ends the handling of a press of the back button of the view
\* on display, a view reached by presses of offered buttons: within
\* button_handler itself, or in the method it called.
BackStep ==
    /\ HasBack(msg)
    /\ offered'
    /\ pc' = "idle"
    /\ cur'.kind = "button" /\ cur'.data = BackData(msg)
    /\ \/ pc = "idle" /\ containers' = containers
       \/ pc # "idle"

C14_MainOffersAll ==
    /\ (Reached /\ msg.text.kind = "main")
          => /\ HasButton(msg, Tag("list"))
             /\ HasButton(msg, Tag("stats"))
             /\ HasButton(msg, Tag("images"))
    /\ HandledButton(Tag("images")) => msg.text.kind = "image_list"

\* The step in which handle_action runs a start, stop, restart or logs action.
ActionStep ==
    /\ pc = "handle_action" /\ pc' = "idle"
    /\ ActionOf(cur.data) \in Lifecycle \cup {Tag("logs")}

\* C15: an action acts on what the runtime holds at the moment it is handled,
\* whatever the view on display shows: it fails with an error text and changes
\* nothing when the runtime no longer holds the container, a lifecycle action
\* that succeeds leaves the container in the action's target state, one that
\* fails leaves the runtime as it is, logs change nothing, and no other
\* container ever changes.
C15_ReResolves ==
    [][ActionStep =>
          LET action == ActionOf(cur.data)
              n == ActionName(cur.data)
          IN  /\ LastOp(ops').name = n
              /\ \A m \in ContainerNames \ {n} : containers'[m] = containers[m]
              /\ StatusOf(n) = "absent"
                    => containers' = containers /\ IsErrorText(msg'.text)
              /\ msg'.text.name = n
              /\ IF action \in Lifecycle
                 THEN /\ msg'.text.kind \in {"done", "failed"}
                      /\ msg'.text.kind = "done"
                            => StatusOf(n) # "absent" /\ containers'[n] = Target(action[1])
                      /\ msg'.text.kind = "failed" => containers' = containers
                 ELSE /\ containers' = containers
                      /\ msg'.text.kind = "logs"
                      /\ ~IsErrorText(msg'.text)
                            => /\ StatusOf(n) # "absent"
                               /\ msg'.text.chars = TruncateLogs(LogOf(n))]_vars

\* C15 witness: stop was pressed in the detail view of a container the runtime
\* had lost since the view was rendered, and the failure is reported.
C15_Witness ==
    /\ HandledButton(action_tag("stop", web)) /\ offered
    /\ before.kind = "container_info" /\ before.name = web
    /\ ops[1].pre = "absent"
    /\ containers[web] = "absent"
    /\ msg.text.kind = "failed"

\* A press of a lifecycle button for the container whose lifecycle command the
\* handler on the event loop is running.
RacingPress(u) ==
    /\ pc = "handle_action" /\ ActionOf(cur.data) \in Lifecycle
    /\ ActionName(cur.data) \in ContainerNames
    /\ offered /\ HasButton(msg, u.data)
    /\ Route(u.data) = "handle_action" /\ ActionOf(u.data) \in Lifecycle
    /\ ActionName(u.data) = ActionName(cur.data)

\* C16: while the lifecycle command of one interaction is in flight, a second
\* lifecycle interaction for the same container is not made to wait: its
\* handling can begin, so that the two are in flight at the same time.
C16_Unserialized ==
    \A u \in Updates : RacingPress(u) => ENABLED button_handler(u)

\* The callback data of the buttons of a message.
ButtonData(m) == {m.keyboard[i].data : i \in 1..Len(m.keyboard)}

\* C17: a detail view shows the status the runtime gave for that rendering,
\* and its buttons are Stop and Restart when that status is running, Start
\* alone for any other status, and in both cases Logs and Back, each once.
C17_ButtonsMatchStatus ==
    [][(pc = "show_container_info" /\ pc' = "idle"
            /\ msg'.text.kind = "container_info")
       => LET n == msg'.text.name
              status == msg'.text.status
          IN  /\ n = InfoName(cur.data)
              /\ status = containers[n]
              /\ ButtonData(msg') =
                    (IF status = "running"
                     THEN {action_tag("stop", n), action_tag("restart", n)}
                     ELSE {action_tag("start", n)})
                    \cup {action_tag("logs", n), Tag("list")}
              /\ Len(msg'.keyboard) = Cardinality(ButtonData(msg'))]_vars

\* C17 witness: the detail of a stopped container is shown, with Start and
\* without Stop.
C17_Witness ==
    /\ HandledButton(container_tag(web)) /\ offered
    /\ msg.text.kind = "container_info" /\ msg.text.status = "exited"
    /\ HasButton(msg, action_tag("start", web))
    /\ ~HasButton(msg, action_tag("stop", web))

\* C18: in a stats view built from two fetches that both answered, the running
\* count of the header equals the number of entries listed below it, and no
\* entry is listed exactly when the text 'no running containers' is shown.
C18_OneSnapshot ==
    (HandledButton(Tag("stats")) /\ offered /\ FailedOps = {}
        /\ msg.text.kind = "stats")
    => /\ msg.text.counts[1] = Len(msg.text.stats)
       /\ Len(msg.text.stats) = 0 <=> msg.text.note = "no_running_containers"

\* The action tags the views carry: 'list', 'stats', 'back', 'container_<name>'
\* and 'action_<start|stop|restart|logs>_<name>'.
IsViewTag(data) ==
    \/ data \in {Tag("list"), Tag("stats"), Tag("back")}
    \/ Len(data) >= 2 /\ data[1] = "container" /\ data[2] = "_"
    \/ /\ Len(data) >= 4
       /\ data[1] = "action" /\ data[2] = "_" /\ data[3] \in Verbs /\ data[4] = "_"

\* 'action_<start|stop|restart|logs>' with nothing after the verb
IsBareAction(data) ==
    Len(data) = 3 /\ data[1] = "action" /\ data[2] = "_" /\ data[3] \in Verbs

\* C19 as stated: the handling of a press whose tag is none of the views' tags
\* makes no runtime call and leaves the message on display as it is.
C19_UnknownChangesNothing ==
    [][(cur'.kind = "button" /\ ~IsViewTag(cur'.data))
       => msg' = msg /\ ops' = <<>>]_vars

\* C19, amended: the same for every tag that is neither a view's tag nor
\* 'action_<start|stop|restart|logs>' alone; a press of 'action_<verb>' alone
\* is handled as that action on the empty container name: its lookup fails,
\* the failure (for logs, the error text) is rendered, the runtime is unchanged.
C19_UnknownIgnored ==
    [][/\ (cur'.kind = "button" /\ ~IsViewTag(cur'.data) /\ ~IsBareAction(cur'.data))
          => msg' = msg /\ ops' = <<>>
       /\ (pc = "handle_action" /\ pc' = "idle" /\ IsBareAction(cur.data))
          => /\ containers' = containers
             /\ Len(ops') = 1 /\ ops'[1].name = <<>> /\ ~ops'[1].ok
             /\ msg'.text.name = <<>>
             /\ IsErrorText(msg'.text)]_vars

\* C19 witness: a press of 'action_kill_web' was handled while a detail view
\* was on display, and the detail view is still on display.
C19_Witness ==
    /\ HandledButton(action_tag("kill", web))
    /\ outcome = "ignored" /\ ops = <<>>
    /\ before.kind = "container_info"
    /\ msg.text.kind = "container_info"

----------------------------------------------------------------------------
(* Logs truncation: handle_action's logs branch on log texts around the cap *)

MaxOver == 60

\* A log of n characters, each told apart by its position.
LogText(n) == [i \in 1..n |-> <<"c", i>>]
LogTexts == {LogText(n) : n \in (0..MaxOver) \cup ((LogCap - MaxOver)..(LogCap + MaxOver))}

NavQuiet ==
    /\ containers = [n \in ContainerNames |-> "running"]
    /\ allowed_users = {}
    /\ cur = NoUpdate
    /\ before = ViewOf(NoMsg)
    /\ offered = TRUE
    /\ ops = <<>>
    /\ outcome = "none"
    /\ stats_text = NoStatsText
    /\ msg = NoMsg

InitLogs ==
    /\ NavQuiet
    /\ pc = "handle_action"
    /\ logs_in \in LogTexts
    /\ logs_out = <<>>
    /\ ssh_out = <<>> /\ parsed = Pending
    /\ ex = ExIdle

\* handle_action, the logs branch: the text shown for the log fetched
ShowLogs ==
    /\ pc = "handle_action"
    /\ logs_out' = TruncateLogs(logs_in)
    /\ pc' = "idle"
    /\ UNCHANGED <<containers, allowed_users, cur, before, offered, ops, outcome, stats_text,
                   msg, logs_in, ssh_out, parsed, ex>>

NextLogs == ShowLogs

SpecLogs == InitLogs /\ [][NextLogs]_vars

Shown == pc = "idle"

IsSuffix(t, s) ==
    Len(t) <= Len(s) /\ \A i \in 1..Len(t) : t[i] = s[Len(s) - Len(t) + i]

----------------------------------------------------------------------------
(* docker_client.py: the listing parser of DockerClient.get_containers, on   *)
(* every output of the listing command up to a length                       *)

TAB == "\t"
NL == "\n"
Whitespace == {TAB, NL}

MaxOutLen == 7
OutChars == {"a", "b", TAB, NL}
Outputs == UNION {[1..n -> OutChars] : n \in 0..MaxOutLen}

RECURSIVE lstrip(_)
lstrip(s) == IF s # <<>> /\ Head(s) \in Whitespace THEN lstrip(Tail(s)) ELSE s

RECURSIVE rstrip(_)
rstrip(s) ==
    IF s # <<>> /\ s[Len(s)] \in Whitespace THEN rstrip(SubSeq(s, 1, Len(s) - 1)) ELSE s

\* str.strip(): without its leading and trailing whitespace
strip(s) == rstrip(lstrip(s))

ContainerSummary(parts) ==
    [id |-> parts[1], name |-> parts[2], status |-> parts[3], image |-> parts[4]]

\* get_containers, the loop body: what one line adds to the list, or IndexError
ParseLine(line) ==
    IF line = <<>> THEN Returned(<<>>)
    ELSE LET parts == split(line, TAB)
         IN  IF Len(parts) >= 4 THEN Returned(<<ContainerSummary(parts)>>)
             ELSE Returned(<<>>)

RECURSIVE ParseLines(_)
ParseLines(lines) ==
    IF lines = <<>> THEN Returned(<<>>)
    ELSE LET first == ParseLine(Head(lines))
             rest == ParseLines(Tail(lines))
         IN  IF first.raised THEN first
             ELSE IF rest.raised THEN rest
             ELSE Returned(first.value \o rest.value)

\* the loop body without the check of the column count: parts[3] on a short
\* line raises IndexError
ParseLineUnchecked(line) ==
    IF line = <<>> THEN Returned(<<>>)
    ELSE LET parts == split(line, TAB)
         IN  IF Len(parts) >= 4 THEN Returned(<<ContainerSummary(parts)>>)
             ELSE Raised("IndexError")

RECURSIVE ParseLinesUnchecked(_)
ParseLinesUnchecked(lines) ==
    IF lines = <<>> THEN Returned(<<>>)
    ELSE LET first == ParseLineUnchecked(Head(lines))
             rest == ParseLinesUnchecked(Tail(lines))
         IN  IF first.raised THEN first
             ELSE IF rest.raised THEN rest
             ELSE Returned(first.value \o rest.value)

client_get_containers_unchecked(result) ==
    ParseLinesUnchecked(split(strip(result), NL))

\* DockerClient.get_containers, given the output of the listing command
client_get_containers(result) == ParseLines(split(strip(result), NL))

InitParse ==
    /\ NavQuiet
    /\ pc = "idle"
    /\ logs_in = <<>> /\ logs_out = <<>>
    /\ ssh_out \in {<<out>> : out \in Outputs}
    /\ parsed = Pending
    /\ ex = ExIdle

GetContainers ==
    /\ ~parsed.done
    /\ parsed' = client_get_containers(ssh_out[1])
    /\ UNCHANGED <<navVars, logVars, ssh_out, ex>>

NextParse == GetContainers

SpecParse == InitParse /\ [][NextParse]_vars


(* The listing claims, stated over the positions of the separators *)

Positions(s, sep) == {i \in 1..Len(s) : s[i] = sep}
Nth(P, k) == CHOOSE p \in P : Cardinality({q \in P : q < p}) = k - 1
PieceCount(s, sep) == Cardinality(Positions(s, sep)) + 1
\* The k-th piece of s between separators, k in 1..PieceCount(s, sep).
Piece(s, sep, k) ==
    LET P == Positions(s, sep)
        from == IF k = 1 THEN 1 ELSE Nth(P, k - 1) + 1
        to == IF k = Cardinality(P) + 1 THEN Len(s) ELSE Nth(P, k) - 1
    IN  SubSeq(s, from, to)

\* s from its first to its last character that is not whitespace.
Stripped(s) ==
    LET keep == {i \in 1..Len(s) : s[i] \notin Whitespace}
    IN  IF keep = {} THEN <<>>
        ELSE SubSeq(s, CHOOSE i \in keep : \A j \in keep : i <= j,
                       CHOOSE i \in keep : \A j \in keep : i >= j)

FieldCount(line) == IF line = <<>> THEN 0 ELSE PieceCount(line, TAB)
SummaryOf(line) ==
    [id |-> Piece(line, TAB, 1), name |-> Piece(line, TAB, 2),
     status |-> Piece(line, TAB, 3), image |-> Piece(line, TAB, 4)]

\* The value is, in order, the summary of each line of text that is accepted.
ListsExactly(value, text, Accepted(_)) ==
    LET good == {k \in 1..PieceCount(text, NL) : Accepted(Piece(text, NL, k))}
    IN  /\ Len(value) = Cardinality(good)
        /\ \A i \in 1..Len(value) : value[i] = SummaryOf(Piece(text, NL, Nth(good, i)))

FourFields(line) == FieldCount(line) = 4
AtLeastFourFields(line) == FieldCount(line) >= 4

----------------------------------------------------------------------------
(* docker_client.py: DockerClient.get_stats on outputs of the stats command  *)
(* whose percentage fields are any text up to a length                      *)

MaxFieldLen == 3
FieldChars == {"1", ".", "%", "a"}
PercFields == UNION {[1..n -> FieldChars] : n \in 0..MaxFieldLen}

\* str.replace(old, ''): without any occurrence of the character
RECURSIVE remove(_, _)
remove(s, old) ==
    IF s = <<>> THEN <<>>
    ELSE (IF Head(s) = old THEN <<>> ELSE <<Head(s)>>) \o remove(Tail(s), old)

Digits == {"1"}
AllDigits(s) == \A i \in 1..Len(s) : s[i] \in Digits

RECURSIVE DigitsValue(_)
DigitsValue(s) == IF s = <<>> THEN 0 ELSE 10 * DigitsValue(SubSeq(s, 1, Len(s) - 1)) + 1

RECURSIVE Pow10(_)
Pow10(n) == IF n = 0 THEN 1 ELSE 10 * Pow10(n - 1)

\* A number is a numerator over a power of ten.
Number(num, den) == [num |-> num, den |-> den]
Zero == Number(0, 1)

\* float(s): digits with at most one point and at least one digit; ValueError
\* otherwise.  (Of the texts float accepts, the field characters spell no other.)
float(s) ==
    LET parts == split(s, ".")
    IN  IF Len(parts) = 1 /\ AllDigits(s) /\ s # <<>>
        THEN Returned(Number(DigitsValue(s), 1))
        ELSE IF /\ Len(parts) = 2
                /\ AllDigits(parts[1]) /\ AllDigits(parts[2])
                /\ parts[1] \o parts[2] # <<>>
        THEN Returned(Number(DigitsValue(parts[1] \o parts[2]), Pow10(Len(parts[2]))))
        ELSE Raised("ValueError")

UpLine == <<"a", TAB, "web", TAB, "Up", " 2 hours", TAB, "img">>
ExitedLine == <<"b", TAB, "db", TAB, "Exited", " (0)", TAB, "img">>
Listings == {<<>>, UpLine, UpLine \o <<NL>> \o ExitedLine}

StatsOutputs ==
    {<<>>} \cup PercFields
        \cup {cpu \o <<TAB, "1MiB / 1GiB", TAB>> \o mem : cpu, mem \in PercFields}

ServerStats(cpu, mem, lst) ==
    [cpu_percent |-> cpu, memory_percent |-> mem, disk_percent |-> Zero,
     containers |-> <<Cardinality({i \in 1..Len(lst) :
                                      startswith(lst[i].status, <<"Up">>)}),
                      Len(lst)>>]

\* DockerClient.get_stats, given the outputs of the stats and listing commands
get_stats(result, listing) ==
    LET text == strip(result)
        parts == split(split(text, NL)[1], TAB)
        parse == text # <<>> /\ Len(parts) >= 3
        cpu == IF parse THEN float(remove(parts[1], "%")) ELSE Returned(Zero)
        mem == IF parse THEN float(remove(parts[3], "%")) ELSE Returned(Zero)
        lst == client_get_containers(listing)
    IN  IF cpu.raised THEN cpu
        ELSE IF mem.raised THEN mem
        ELSE IF lst.raised THEN lst
        ELSE Returned(ServerStats(cpu.value, mem.value, lst.value))

InitStats ==
    /\ NavQuiet
    /\ pc = "idle"
    /\ logs_in = <<>> /\ logs_out = <<>>
    /\ ssh_out \in {<<out, lst>> : out \in StatsOutputs, lst \in Listings}
    /\ parsed = Pending
    /\ ex = ExIdle

GetStats ==
    /\ ~parsed.done
    /\ parsed' = get_stats(ssh_out[1], ssh_out[2])
    /\ UNCHANGED <<navVars, logVars, ssh_out, ex>>

NextStats == GetStats

SpecStats == InitStats /\ [][NextStats]_vars

\* The first line of the stats output, when it has the three columns.
StatsLine == Piece(Stripped(ssh_out[1]), NL, 1)
HasColumns == FieldCount(StatsLine) >= 3

\* The percentage a field stands for: its number, or 0.0 when what is left of
\* it without the "%" is no number.
Percentage(field) ==
    LET number == SelectSeq(field, LAMBDA c : c # "%")
        point == Positions(number, ".")
        digits == SelectSeq(number, LAMBDA c : c # ".")
    IN  IF Cardinality(point) <= 1 /\ digits # <<>> /\ AllDigits(digits)
        THEN Number(DigitsValue(digits),
                    IF point = {} THEN 1
                    ELSE Pow10(Len(number) - (CHOOSE i \in point : TRUE)))
        ELSE Zero

\* C7: get_stats raises no error; a percentage field that is no number gives
\* 0.0 in the ServerStats and a well-formed one gives its numeric value.
C7_StatsTolerant ==
    parsed.done =>
        /\ ~parsed.raised
        /\ HasColumns =>
              /\ parsed.value.cpu_percent = Percentage(Piece(StatsLine, TAB, 1))
              /\ parsed.value.memory_percent = Percentage(Piece(StatsLine, TAB, 3))

\* The part of C7 that holds: whenever get_stats returns, the percentages are
\* the numeric values of the fields.
StatsValuesWhenReturned ==
    (parsed.done /\ ~parsed.raised /\ HasColumns) =>
        /\ parsed.value.cpu_percent = Percentage(Piece(StatsLine, TAB, 1))
        /\ parsed.value.memory_percent = Percentage(Piece(StatsLine, TAB, 3))

----------------------------------------------------------------------------
(* docker_client.py: one call of the command executor _run_ssh_command.     *)
(* sshpass/ssh runs as a child process; the coroutine awaits                *)
(* process.communicate(), which returns when the child has exited.          *)

\* The command lines the facade hands to the executor.
Commands ==
    {<<"docker ps -a">>, <<"docker images">>, <<"docker stats --no-stream">>}
        \cup {<<verb, " ">> \o n :
                 verb \in {"docker inspect", "docker start", "docker stop",
                           "docker restart", "docker logs --tail"},
                 n \in ContainerNames}

\* What the child process does: the remote command exits with status zero or
\* not, ssh cannot connect or authenticate, or the remote command never exits.
Remotes == {"exit_zero", "exit_nonzero", "connection_failure",
            "authentication_failure", "never_exits"}

ExitStatus(remote) ==
    IF remote = "exit_zero" THEN 0
    ELSE IF remote = "exit_nonzero" THEN 1
    ELSE IF remote = "connection_failure" THEN 255
    ELSE 5

\* _run_ssh_command is called: create_subprocess_exec starts the child
ExecCall(command, remote) ==
    /\ ex.pc = "idle"
    /\ ex' = [ExIdle EXCEPT !.pc = "communicate", !.command = command,
                            !.remote = remote]
    /\ UNCHANGED <<navVars, logVars, parseVars>>

\* The child process exits, its output captured in the pipes.
ProcessExit ==
    /\ ex.pc = "communicate"
    /\ ex.remote # "never_exits"
    /\ ex' = [ex EXCEPT !.pc = "exited",
                        !.returncode = ExitStatus(ex.remote),
                        !.stdout = IF ex.remote = "exit_zero"
                                   THEN <<"out of ">> \o ex.command ELSE <<>>,
                        !.stderr = IF ex.remote = "exit_zero"
                                   THEN <<>> ELSE <<"err: ", ex.remote>>]
    /\ UNCHANGED <<navVars, logVars, parseVars>>

\* _run_ssh_command after communicate(): raise on a non-zero return code,
\* return the decoded standard output otherwise
ExecReturn ==
    /\ ex.pc = "exited"
    /\ ex' = IF ex.returncode # 0
             THEN [ex EXCEPT !.pc = "done", !.result = "raised", !.text = ex.stderr]
             ELSE [ex EXCEPT !.pc = "done", !.result = "returned", !.text = ex.stdout]
    /\ UNCHANGED <<navVars, logVars, parseVars>>

\* The caller has the result; the executor is ready for the next call.
ExecNext ==
    /\ ex.pc = "done"
    /\ ex' = [ex EXCEPT !.pc = "idle"]
    /\ UNCHANGED <<navVars, logVars, parseVars>>

InitExec ==
    /\ NavQuiet
    /\ pc = "idle"
    /\ logs_in = <<>> /\ logs_out = <<>>
    /\ ssh_out = <<>> /\ parsed = Pending
    /\ ex = ExIdle

NextExec ==
    \/ \E c \in Commands, r \in Remotes : ExecCall(c, r)
    \/ ProcessExit
    \/ ExecReturn
    \/ ExecNext

\* Every step of the executor that can be taken is taken: the event loop runs
\* the coroutine on, and a child process that is to exit does exit.
SpecExec == InitExec /\ [][NextExec]_vars /\ WF_vars(ProcessExit) /\ WF_vars(ExecReturn)

\* C8: every call of the executor eventually finishes, returning the standard
\* output or raising the error that carries the standard-error text; a remote
\* command that never exits is ended by the deadline.
C8_Terminates == (ex.pc = "communicate") ~> (ex.pc = "done")

\* The part of C8 that holds: a call that finishes returns the standard output
\* on exit status zero and raises with the standard-error text otherwise.
ExecResult ==
    ex.pc = "done" =>
        IF ex.returncode = 0
        THEN ex.result = "returned" /\ ex.text = ex.stdout
        ELSE ex.result = "raised" /\ ex.text = ex.stderr

====
